---- MODULE Spec2Model ----
(***************************************************************************)
(* A model of the GRR frontend server (grr/lib/front_end.py):              *)
(* ServerCommunicator (public-key resolution, replay protection) and       *)
(* FrontEndServer (throttling, HandleMessageBundles, ReceiveMessages,      *)
(* HandleWellKnownFlows, DrainTaskSchedulerQueueForClient).                *)
(*                                                                         *)
(* Units.  Agent timestamps (CLOCK, bundle timestamp) are counted in       *)
(* seconds, so that Duration("1h") is 3600.  Server wall-clock times       *)
(* (time.time()) are counted in seconds and advance in steps of            *)
(* EgressBudget.  An unset CLOCK / PING reads as 0, as `Get(...) or 0`     *)
(* does.                                                                   *)
(***************************************************************************)
EXTENDS Integers, Sequences, FiniteSets, TLC

VARIABLES
  store,                          \* aff4 object store: agent -> record attributes
  client_cache,                   \* ServerCommunicator.client_cache: agent -> open handle
  pub_key_cache,                  \* ServerCommunicator.pub_key_cache: agents with a cached key
  throttle_bundles_ratio,         \* FrontEndServer.throttle_bundles_ratio
  handled_bundles,                \* FrontEndServer.handled_bundles
  last_not_throttled_bundle_time, \* FrontEndServer.last_not_throttled_bundle_time
  throttle_callback,              \* FrontEndServer.throttle_callback (what it returns)
  now,                            \* the server's wall clock, time.time()
  queue,                          \* QueueManager: agent -> task id -> task on the outbound queue
  statuses,                       \* QueueManager: (session, request) with a recorded status
  prng,                           \* state of utils.PRNG
  last                            \* history: the inputs and outcome of the last call

vars == <<store, client_cache, pub_key_cache, throttle_bundles_ratio, handled_bundles,
          last_not_throttled_bundle_time, throttle_callback, now, queue, statuses,
          prng, last>>

commVars == <<store, client_cache, pub_key_cache>>
throttleVars == <<throttle_bundles_ratio, handled_bundles, last_not_throttled_bundle_time>>
queueVars == <<queue, statuses, prng>>

(***************************************************************************)
(* Bounds and program constants.                                           *)
(***************************************************************************)
Agents == {"A1", "A2"}
NoCert == "NoCert"
NoIP == "NoIP"
IPs == {"ip1", "ip2"}

Hour == 3600
MaxHours == 2
\* Bundle timestamps: around every whole hour, so that CLOCK - 1h is met
\* exactly, missed by one second and exceeded.
TimeStamps == {h * Hour + d : h \in 0..MaxHours, d \in {0, 1}}

EgressBudget == 10
MaxTicks == 2
Times == {k * EgressBudget : k \in 1..(MaxTicks + 1)}

\* config Frontend.throttle_average_interval, in seconds
ThrottleAverageInterval == 20
\* max(0.1e-6, ratio): the floor is 1 / EpsilonInverse
EpsilonInverse == 10000000
\* The ratios set: none, 0, 1/2 and 1, as numerator and denominator.
NoRatio == [num |-> 0, den |-> 0]
Ratios == {NoRatio, [num |-> 0, den |-> 1], [num |-> 1, den |-> 2], [num |-> 1, den |-> 1]}
\* No more than MaxWindow arrivals are recorded in one averaging interval.
MaxWindow == 3

Max(x, y) == IF x >= y THEN x ELSE y
Min(x, y) == IF x <= y THEN x ELSE y

\* Sessions: S1 is a regular flow, W1 a well-known flow configured on this
\* frontend (self.well_known_flows after the filter of the constructor).
Sessions == {"S1", "W1"}
WellKnownFlows == {"W1"}
FlowName(session_id) == session_id

\* Tasks on an agent's outbound queue.  Task t is request t of session S1,
\* and the messages of S1 that answer request t carry task_id t; the other
\* messages carry task_id 0, the id of no task.
MaxTasks == 2
TaskIds == 1..MaxTasks
TaskSession(task_id) == "S1"
TaskRequest(task_id) == task_id
\* rdf_flows.GrrMessage().task_ttl, the ttl of a task never leased
InitialTTL == 2
\* the server's max_queue_size
MaxQueueSize == 2
\* the messages of one bundle
MaxMsgs == 2

RequestIds == {0, 1}
ResponseIds == {0, 1}
Message(session_id, request_id, response_id, type, status) ==
  [session_id |-> session_id, request_id |-> request_id, response_id |-> response_id,
   type |-> type, status |-> status,
   task_id |-> IF session_id = "S1" THEN request_id ELSE 0]
\* The requests a session has: a well-known flow has request 0 only.
RequestsOf(session_id) == IF FlowName(session_id) \in WellKnownFlows THEN {0} ELSE RequestIds
Messages ==
  {Message(s, rq, rs, "MESSAGE", "OK") : s \in Sessions, rq \in RequestIds, rs \in ResponseIds}
  \cup {Message(s, rq, rs, "STATUS", st) :
          s \in Sessions, rq \in RequestIds, rs \in ResponseIds,
          st \in {"OK", "CLIENT_KILLED"}}
\* The status payload is read for a STATUS message of a request other than 0
\* only, so the other messages come with one payload.
AgentMessages ==
  {m \in Messages : /\ m.request_id \in RequestsOf(m.session_id)
                    /\ (m.status = "CLIENT_KILLED" => m.request_id # 0)}
SeqsUpTo(S, n) == UNION {[1..k -> S] : k \in 0..n}
Bundles == SeqsUpTo(AgentMessages, MaxMsgs)

\* The bundles of whole parcels: none, a STATUS that completes task 1, a
\* message for the well-known flow.
ParcelBundles ==
  {<<>>,
   <<Message("S1", 1, 1, "STATUS", "OK")>>,
   <<Message("W1", 0, 0, "MESSAGE", "OK")>>}
\* The bundles received between drains: also the STATUS of task 1 after a
\* message of request 0.
DrainBundles ==
  ParcelBundles \cup
    {<<Message("S1", 0, 1, "MESSAGE", "OK"), Message("S1", 1, 1, "STATUS", "OK")>>}
\* The timestamps of whole parcels: more than an hour apart.
ParcelTimeStamps == {1, Hour + 2}
\* A parcel that is rejected before its content is read (unknown source, bad
\* signature) comes with one content only.
Parcels ==
  {p \in [source : Agents, timestamp : ParcelTimeStamps, source_ip : {"ip1"},
          signature_valid : BOOLEAN, queue_size : {0, MaxQueueSize},
          messages : ParcelBundles] :
     (p.source # "A1" \/ ~p.signature_valid) =>
        (p.timestamp = 1 /\ p.queue_size = 0 /\ p.messages = <<>>)}
ZeroRatio == [num |-> 0, den |-> 1]

\* utils.PRNG.GetULong(): the generator's outputs, in the order it yields them.
RandomULongs == <<7, 0, 9>>

(***************************************************************************)
(* The object store and record handles (aff4).  A handle is an open        *)
(* VFSGRRClient object: it reads the attributes it was opened with,        *)
(* overlaid with what was Set on it; Flush writes the attributes that were *)
(* Set.                                                                    *)
(***************************************************************************)
NoHandle == [open |-> FALSE, CLOCK |-> 0, PING |-> 0, CLIENT_IP |-> NoIP, dirty |-> {}]

Create(st, client_id) ==
  [open |-> TRUE, CLOCK |-> st[client_id].CLOCK, PING |-> st[client_id].PING,
   CLIENT_IP |-> st[client_id].CLIENT_IP, dirty |-> {}]

Set(client, attr, value) ==
  [client EXCEPT ![attr] = value, !.dirty = @ \cup {attr}]

Flush(st, client_id, client) ==
  [st EXCEPT ![client_id] =
     [CERT |-> @.CERT,
      CLOCK |-> IF "CLOCK" \in client.dirty THEN client.CLOCK ELSE @.CLOCK,
      PING |-> IF "PING" \in client.dirty THEN client.PING ELSE @.PING,
      CLIENT_IP |-> IF "CLIENT_IP" \in client.dirty THEN client.CLIENT_IP ELSE @.CLIENT_IP]]

Flushed(client) == [client EXCEPT !.dirty = {}]

\* The attributes a later bundle of the agent reads: through the cached
\* handle when there is one, from the store otherwise.
RecordView(cache, st, client_id) ==
  IF cache[client_id].open
    THEN [CLOCK |-> cache[client_id].CLOCK, PING |-> cache[client_id].PING,
          CLIENT_IP |-> cache[client_id].CLIENT_IP]
    ELSE [CLOCK |-> st[client_id].CLOCK, PING |-> st[client_id].PING,
          CLIENT_IP |-> st[client_id].CLIENT_IP]

(***************************************************************************)
(* ServerCommunicator._GetRemotePublicKey                                  *)
(***************************************************************************)
\* A bad mutation: the key is cached before the stored certificate's subject
\* is compared with the name.
GetRemotePublicKeyUnchecked(keys, cache, st, common_name) ==
  IF common_name \in keys
    THEN [ok |-> TRUE, pub_key_cache |-> keys, client_cache |-> cache, unique |-> 0]
  ELSE IF st[common_name].CERT = NoCert
    THEN [ok |-> FALSE, pub_key_cache |-> keys, client_cache |-> cache, unique |-> 1]
  ELSE [ok |-> st[common_name].CERT = common_name,
        pub_key_cache |-> keys \cup {common_name},
        client_cache |-> [cache EXCEPT ![common_name] = Create(st, common_name)],
        unique |-> 0]

GetRemotePublicKey(keys, cache, st, common_name) ==
  IF common_name \in keys
    THEN [ok |-> TRUE, pub_key_cache |-> keys, client_cache |-> cache, unique |-> 0]
  ELSE IF st[common_name].CERT = NoCert
    THEN [ok |-> FALSE, pub_key_cache |-> keys, client_cache |-> cache, unique |-> 1]
  ELSE IF st[common_name].CERT # common_name
    THEN [ok |-> FALSE, pub_key_cache |-> keys, client_cache |-> cache, unique |-> 0]
  ELSE [ok |-> TRUE, pub_key_cache |-> keys \cup {common_name},
        client_cache |-> [cache EXCEPT ![common_name] = Create(st, common_name)],
        unique |-> 0]

(***************************************************************************)
(* ServerCommunicator.VerifyMessageSignature                               *)
(***************************************************************************)
\* A bad mutation: the replay window is never checked.
IsDesynchronizedNever(client_time, remote_time) == FALSE

IsDesynchronized(client_time, remote_time) == client_time < remote_time - Hour

\* A bad mutation: the clock is set whenever the times differ.
ClockMovesForwardAlways(client_time, remote_time) == client_time # remote_time

ClockMovesForward(client_time, remote_time) == client_time > remote_time

VerifyMessageSignature(cache, st, client_id, timestamp, source_ip, cipher_verified, signature_valid, t) ==
  IF ~cipher_verified /\ ~signature_valid
    THEN [state |-> "UNAUTHENTICATED", client_cache |-> cache, store |-> st]
  ELSE
    LET opened == IF cache[client_id].open THEN cache[client_id] ELSE Create(st, client_id)
        client == Set(opened, "CLIENT_IP", source_ip)
        remote_time == client.CLOCK
        client_time == timestamp
    IN IF IsDesynchronized(client_time, remote_time)
         THEN [state |-> "DESYNCHRONIZED",
               client_cache |-> [cache EXCEPT ![client_id] = client],
               store |-> st]
         ELSE LET moved == IF ClockMovesForward(client_time, remote_time)
                             THEN Set(Set(client, "CLOCK", client_time), "PING", t)
                             ELSE client
              IN [state |-> "AUTHENTICATED",
                  client_cache |-> [cache EXCEPT ![client_id] = Flushed(moved)],
                  store |-> Flush(st, client_id, moved)]

(***************************************************************************)
(* FrontEndServer.SetThrottleBundlesRatio and                              *)
(* UpdateAndCheckIfShouldThrottle.  The float arithmetic is done exactly,  *)
(* on fractions: with interval = span / (blen - 1),                        *)
(*   bundle_time - last < interval / max(1e-7, num / den)                  *)
(* is compared after multiplying out the denominators.                     *)
(***************************************************************************)
SetRatio(ratio, bundles, last_time) ==
  [throttle_bundles_ratio |-> ratio,
   handled_bundles |-> IF ratio = NoRatio THEN <<>> ELSE bundles,
   last_not_throttled_bundle_time |-> IF ratio = NoRatio THEN 0 ELSE last_time]

\* handled_bundles[oldest_index:], oldest_index the first entry later than
\* oldest_limit; the empty list when there is none.
DropOldest(bundles, oldest_limit) ==
  LET later == {i \in 1..Len(bundles) : bundles[i] > oldest_limit}
  IN IF later = {} THEN <<>>
     ELSE LET oldest_index == CHOOSE i \in later : \A j \in later : i <= j
          IN SubSeq(bundles, oldest_index, Len(bundles))

\* The quotient is computed on doubles.  For a whole interval d and a ratio
\* 1/den, float(d) / float(1.0 / den) is the exact d * den, except for these
\* <<d, den>>, where the double result lies just above it (IEEE 754 binary64,
\* d <= 30, den in 1..4 and 49..50; e.g. 1.0 / (1.0 / 49) = 49.00000000000001).
RoundedUpQuotients ==
  {<<d, 49>> : d \in {1, 2, 4, 5, 8, 9, 10, 15, 16, 17, 18, 19, 20, 30}}

QuotientRoundsUp(span, gaps, ratio) ==
  /\ ratio.num = 1
  /\ span % gaps = 0
  /\ <<span \div gaps, ratio.den>> \in RoundedUpQuotients

\* elapsed < (span / gaps) / max(1e-7, ratio), elapsed a whole number
BelowInterval(elapsed, span, gaps, ratio) ==
  IF ratio.num * EpsilonInverse >= ratio.den
    THEN \/ elapsed * gaps * ratio.num < span * ratio.den
         \/ /\ elapsed * gaps * ratio.num = span * ratio.den
            /\ QuotientRoundsUp(span, gaps, ratio)
    ELSE elapsed * gaps < span * EpsilonInverse

UpdateAndCheckIfShouldThrottle(ratio, bundles, last_time, bundle_time) ==
  IF ratio = NoRatio
    THEN [throttled |-> FALSE, handled_bundles |-> bundles,
          last_not_throttled_bundle_time |-> last_time]
  ELSE
    LET kept == DropOldest(Append(bundles, bundle_time),
                           bundle_time - ThrottleAverageInterval)
        blen == Len(kept)
    IN IF blen > 1
         THEN LET should_throttle ==
                    BelowInterval(bundle_time - last_time, kept[blen] - kept[1],
                                  blen - 1, ratio)
              IN [throttled |-> should_throttle, handled_bundles |-> kept,
                  last_not_throttled_bundle_time |->
                    IF should_throttle THEN last_time ELSE bundle_time]
         ELSE [throttled |-> (ratio.num = 0), handled_bundles |-> kept,
               last_not_throttled_bundle_time |-> last_time]

(***************************************************************************)
(* queue_manager.QueueManager, as far as the frontend uses it.  A task is  *)
(* "new" (not scheduled yet), "queued" (on the agent's queue, leased or    *)
(* not) or "done" (dequeued).                                              *)
(***************************************************************************)
NoTask == [state |-> "new", ttl |-> 0, leased |-> FALSE]
DoneTask == [state |-> "done", ttl |-> 0, leased |-> FALSE]
FreshTask == [state |-> "queued", ttl |-> InitialTTL, leased |-> FALSE]

Op(call, request_id, response_id, task_id) ==
  [call |-> call, request_id |-> request_id, response_id |-> response_id,
   task_id |-> task_id]

\* QueryAndOwn(queue, limit, lease_seconds): the sets of tasks a lease of up
\* to `limit` tasks can return: tasks on the queue whose lease is not held.
Leasable(q, limit) ==
  LET avail == {t \in TaskIds : q[t].state = "queued" /\ ~q[t].leased /\ q[t].ttl > 0}
  IN {S \in SUBSET avail : Cardinality(S) = Min(limit, Cardinality(avail))}

\* The queue after the lease of `tasks`: each task's ttl is decremented.
QueryAndOwn(q, tasks) ==
  [t \in TaskIds |-> IF t \in tasks
                       THEN [state |-> "queued", ttl |-> q[t].ttl - 1, leased |-> TRUE]
                       ELSE q[t]]

MultiCheckStatus(stat, tasks) ==
  {t \in tasks : <<TaskSession(t), TaskRequest(t)>> \in stat}

DeQueueClientRequest(q, task_ids) ==
  [t \in TaskIds |-> IF t \in task_ids /\ q[t].state = "queued" THEN DoneTask ELSE q[t]]

Schedule(q, tasks) ==
  [t \in TaskIds |-> IF t \in tasks
                       THEN [q[t] EXCEPT !.state = "queued", !.leased = FALSE]
                       ELSE q[t]]

(***************************************************************************)
(* FrontEndServer.DrainTaskSchedulerQueueForClient.  `lease` is the set of *)
(* tasks QueryAndOwn returns.                                              *)
(***************************************************************************)
\* A bad mutation: a task counts as leased before one lease later.
LeasedBeforeLate(task_ttl) == task_ttl < InitialTTL - 2

LeasedBefore(task_ttl) == task_ttl < InitialTTL - 1

\* A bad mutation: the test of the status turned round.
SendAgainInverted(task, status_found) == task \in status_found

SendAgain(task, status_found) == task \notin status_found

DrainTaskSchedulerQueueForClient(q, stat, max_count, lease) ==
  IF max_count <= 0
    THEN [result |-> {}, queue |-> q, ops |-> <<>>, new_tasks |-> {},
          status_found |-> {}]
  ELSE
    LET owned == QueryAndOwn(q, lease)
        check_before_sending == {t \in lease : LeasedBefore(owned[t].ttl)}
        status_found == MultiCheckStatus(stat, check_before_sending)
        resent == {t \in check_before_sending : SendAgain(t, status_found)}
        dequeued == check_before_sending \ resent
        SetToOps(S) == LET RECURSIVE F(_)
                           F(T) == IF T = {} THEN <<>>
                                   ELSE LET x == CHOOSE y \in T : \A z \in T : y <= z
                                        IN <<Op("DeQueueClientRequest", 0, 0, x)>>
                                             \o F(T \ {x})
                       IN F(S)
    IN [result |-> (lease \ check_before_sending) \cup resent,
        queue |-> DeQueueClientRequest(owned, dequeued),
        ops |-> <<Op("QueryAndOwn", 0, 0, 0)>>
                  \o (IF check_before_sending = {} THEN <<>>
                      ELSE <<Op("MultiCheckStatus", 0, 0, 0)>> \o SetToOps(dequeued)),
        new_tasks |-> lease,
        status_found |-> status_found]

(***************************************************************************)
(* FrontEndServer.HandleWellKnownFlows, for the messages of one session.   *)
(***************************************************************************)
GetULong(p) == RandomULongs[(p % Len(RandomULongs)) + 1]

RECURSIVE HandleWellKnownFlows(_, _)
HandleWellKnownFlows(messages, p) ==
  IF messages = <<>>
    THEN [result |-> <<>>, msgs_by_wkf |-> <<>>, prng |-> p]
  ELSE
    LET msg == Head(messages)
    IN IF msg.response_id # 0
         THEN LET rest == HandleWellKnownFlows(Tail(messages), p)
              IN [rest EXCEPT !.result = <<msg>> \o @]
       ELSE IF FlowName(msg.session_id) \in WellKnownFlows
         THEN LET rest == HandleWellKnownFlows(Tail(messages), p)
              IN [rest EXCEPT !.msgs_by_wkf = <<msg>> \o @]
       ELSE LET rest == HandleWellKnownFlows(Tail(messages), (p + 1) % Len(RandomULongs))
            IN [rest EXCEPT !.result = <<[msg EXCEPT !.response_id = GetULong(p)]>> \o @]

(***************************************************************************)
(* FrontEndServer.ReceiveMessages.  The QueueManager calls of a session    *)
(* group are kept in the order they are issued; the groups of a bundle are *)
(* taken in the order their sessions first appear in it.                   *)
(***************************************************************************)
\* The second loop over unprocessed_msgs, from message i on.
RECURSIVE Notifications(_, _)
Notifications(msgs, i) ==
  IF i > Len(msgs) THEN <<>>
  ELSE IF msgs[i].request_id = 0
    THEN <<Op("QueueNotification", -1, 0, 0)>>
  ELSE IF msgs[i].type = "STATUS"
    THEN <<Op("DeQueueClientRequest", msgs[i].request_id, msgs[i].response_id,
              msgs[i].task_id),
           Op("QueueNotification", msgs[i].request_id, 0, 0)>>
         \o (IF msgs[i].status = "CLIENT_KILLED"
               THEN <<Op("PublishEvent", msgs[i].request_id, msgs[i].response_id,
                         msgs[i].task_id)>>
               ELSE <<>>)
         \o Notifications(msgs, i + 1)
  ELSE Notifications(msgs, i + 1)

\* A bad mutation: the notifications are issued before the responses.
GroupOpsNotifyFirst(msgs) ==
  Notifications(msgs, 1)
  \o [i \in 1..Len(msgs) |->
        Op("QueueResponse", msgs[i].request_id, msgs[i].response_id, msgs[i].task_id)]

\* The calls for one session group whose unprocessed messages are msgs.
GroupOps(msgs) ==
  [i \in 1..Len(msgs) |->
     Op("QueueResponse", msgs[i].request_id, msgs[i].response_id, msgs[i].task_id)]
  \o Notifications(msgs, 1)

SessionOrder(messages) ==
  LET RECURSIVE F(_, _)
      F(i, seen) == IF i > Len(messages) THEN <<>>
                    ELSE IF messages[i].session_id \in seen THEN F(i + 1, seen)
                    ELSE <<messages[i].session_id>>
                           \o F(i + 1, seen \cup {messages[i].session_id})
  IN F(1, {})

\* The state of the groups still to handle, after the groups before them.
RECURSIVE ReceiveGroups(_, _, _)
ReceiveGroups(messages, order, acc) ==
  IF order = <<>> THEN acc
  ELSE
    LET session_id == Head(order)
        msgs == SelectSeq(messages, LAMBDA m : m.session_id = session_id)
        w == HandleWellKnownFlows(msgs, acc.prng)
        unprocessed_msgs == w.result
        ops == IF unprocessed_msgs = <<>> THEN <<>> ELSE GroupOps(unprocessed_msgs)
    IN ReceiveGroups(messages, Tail(order),
         [prng |-> w.prng,
          ops |-> [acc.ops EXCEPT ![session_id] = ops],
          processed |-> [acc.processed EXCEPT ![session_id] = w.msgs_by_wkf]])

ReceiveEffects(q, stat, messages, g) ==
  LET calls(s, name) == {g.ops[s][i] : i \in {j \in 1..Len(g.ops[s]) :
                                                g.ops[s][j].call = name}}
      dequeued == UNION {{o.task_id : o \in calls(s, "DeQueueClientRequest")} :
                           s \in Sessions}
      status_written ==
        UNION {{<<s, m.request_id>> :
                  m \in {messages[i] : i \in {j \in 1..Len(messages) :
                           /\ messages[j].session_id = s
                           /\ messages[j].type = "STATUS"
                           /\ ~(messages[j].response_id = 0
                                /\ FlowName(s) \in WellKnownFlows)}}} : s \in Sessions}
  IN [queue |-> DeQueueClientRequest(q, dequeued),
      \* only the statuses of the tasks' requests are ever looked up
      statuses |-> stat \cup (status_written \cap
                               {<<TaskSession(t), TaskRequest(t)>> : t \in TaskIds}),
      prng |-> g.prng, ops |-> g.ops, processed |-> g.processed]

ReceiveMessages(q, stat, p, messages) ==
  ReceiveEffects(q, stat, messages,
                 ReceiveGroups(messages, SessionOrder(messages),
                               [prng |-> p, ops |-> [s \in Sessions |-> <<>>],
                                processed |-> [s \in Sessions |-> <<>>]]))

(***************************************************************************)
(* Initial state: the server after construction.  A1 is enrolled, A2 is    *)
(* not.                                                                    *)
(***************************************************************************)
Init ==
  /\ store = [a \in Agents |->
                [CERT |-> IF a = "A1" THEN "A1" ELSE NoCert,
                 CLOCK |-> 0, PING |-> 0, CLIENT_IP |-> NoIP]]
  /\ client_cache = [a \in Agents |-> NoHandle]
  /\ pub_key_cache = {}
  /\ throttle_bundles_ratio = NoRatio
  /\ handled_bundles = <<>>
  /\ last_not_throttled_bundle_time = 0
  /\ throttle_callback = TRUE
  /\ now = EgressBudget
  /\ queue = [a \in Agents |-> [t \in TaskIds |-> NoTask]]
  /\ statuses = {}
  /\ prng = 0
  /\ last = [op |-> "Init"]

Tick ==
  /\ now + EgressBudget \in Times
  /\ now' = now + EgressBudget
  /\ UNCHANGED <<commVars, throttleVars, throttle_callback, queueVars, last>>

(***************************************************************************)
(* communicator.Communicator.DecodeMessages, as far as the frontend sees   *)
(* it: the source's public key is resolved, the signature and the          *)
(* timestamp are verified, and a parcel that is not AUTHENTICATED is       *)
(* rejected.                                                               *)
(***************************************************************************)
DecodeMessages(keys, cache, st, source, timestamp, source_ip, cipher_verified, signature_valid, t) ==
  LET k == GetRemotePublicKey(keys, cache, st, source)
      v == VerifyMessageSignature(k.client_cache, st, source, timestamp, source_ip,
                                  cipher_verified, signature_valid, t)
  IN IF ~k.ok
       THEN [result |-> "UnknownSource", pub_key_cache |-> k.pub_key_cache,
             client_cache |-> k.client_cache, store |-> st, unique |-> k.unique]
       ELSE [result |-> CASE v.state = "AUTHENTICATED" -> "ok"
                          [] v.state = "DESYNCHRONIZED" -> "Desynchronized"
                          [] OTHER -> "SignatureInvalid",
             pub_key_cache |-> k.pub_key_cache, client_cache |-> v.client_cache,
             store |-> v.store, unique |-> k.unique]

\* The history of one decode: what the call was given, what it found and
\* what it answered.
DecodeRecord(source, timestamp, source_ip, checked, d) ==
  [source |-> source, timestamp |-> timestamp, source_ip |-> source_ip,
   result |-> d.result, checked |-> checked,
   storeBefore |-> store[source], storeAfter |-> d.store[source],
   viewBefore |-> RecordView(client_cache, store, source)]

(***************************************************************************)
(* The communicator alone: a parcel is decoded and authenticated.          *)
(***************************************************************************)
DecodeCall(source, timestamp, source_ip, cipher_verified, signature_valid) ==
  LET d == DecodeMessages(pub_key_cache, client_cache, store, source, timestamp,
                          source_ip, cipher_verified, signature_valid, now)
  IN /\ pub_key_cache' = d.pub_key_cache
     /\ client_cache' = d.client_cache
     /\ store' = d.store
     /\ last' = [op |-> "Decode",
                 decode |-> DecodeRecord(source, timestamp, source_ip,
                                         cipher_verified \/ signature_valid, d)]
     /\ UNCHANGED <<throttleVars, throttle_callback, now, queueVars>>

NextComm ==
  \/ Tick
  \/ \E a \in Agents, ts \in TimeStamps, ip \in IPs, cv \in BOOLEAN, sv \in BOOLEAN :
       DecodeCall(a, ts, ip, cv, sv)

SpecComm == Init /\ [][NextComm]_vars

(***************************************************************************)
(* The throttler alone: the ratio is set, time passes, bundles arrive.     *)
(***************************************************************************)
SetThrottleBundlesRatio(ratio) ==
  LET r == SetRatio(ratio, handled_bundles, last_not_throttled_bundle_time)
  IN /\ throttle_bundles_ratio' = r.throttle_bundles_ratio
     /\ handled_bundles' = r.handled_bundles
     /\ last_not_throttled_bundle_time' = r.last_not_throttled_bundle_time
     /\ last' = [op |-> "SetRatio"]
     /\ UNCHANGED <<commVars, throttle_callback, now, queueVars>>

ThrottleCall ==
  LET r == UpdateAndCheckIfShouldThrottle(throttle_bundles_ratio, handled_bundles,
                                          last_not_throttled_bundle_time, now)
  IN /\ throttle_bundles_ratio = NoRatio \/ Len(handled_bundles) < MaxWindow
     /\ handled_bundles' = r.handled_bundles
     /\ last_not_throttled_bundle_time' = r.last_not_throttled_bundle_time
     /\ last' = [op |-> "Throttle", bundle_time |-> now, throttled |-> r.throttled,
                 \* the calls since the ratio was set: 1, or 2 for any later one
                 calls |-> IF last.op = "Throttle" THEN 2 ELSE 1]
     /\ UNCHANGED <<commVars, throttle_bundles_ratio, throttle_callback, now, queueVars>>

NextThrottle ==
  \/ Tick
  \/ \E ratio \in Ratios : SetThrottleBundlesRatio(ratio)
  \/ ThrottleCall

SpecThrottle == Init /\ [][NextThrottle]_vars

(***************************************************************************)
(* The ingress alone: flows schedule tasks for enrolled agents, and        *)
(* ReceiveMessages ingests the messages of a bundle.                       *)
(***************************************************************************)
ScheduleTask(client_id, task_id) ==
  /\ store[client_id].CERT = client_id
  /\ queue[client_id][task_id].state = "new"
  /\ queue' = [queue EXCEPT ![client_id][task_id] = FreshTask]
  /\ last' = [op |-> "ScheduleTask"]
  /\ UNCHANGED <<commVars, throttleVars, throttle_callback, now, statuses, prng>>

ReceiveCall(client_id, messages) ==
  \E r \in {ReceiveMessages(queue[client_id], statuses, prng, messages)} :
     /\ store[client_id].CERT = client_id
     /\ queue' = [queue EXCEPT ![client_id] = r.queue]
     /\ statuses' = r.statuses
     /\ prng' = r.prng
     /\ last' = [op |-> "Receive", client_id |-> client_id, messages |-> messages,
                 ops |-> r.ops, processed |-> r.processed,
                 queueBefore |-> queue[client_id]]
     /\ UNCHANGED <<commVars, throttleVars, throttle_callback, now>>

NextReceive ==
  \/ \E a \in Agents, t \in TaskIds : ScheduleTask(a, t)
  \/ \E a \in Agents, messages \in Bundles : ReceiveCall(a, messages)

SpecReceive == Init /\ [][NextReceive]_vars

(***************************************************************************)
(* FrontEndServer.HandleMessageBundles.  dt is the time ReceiveMessages    *)
(* takes; encode_ok is whether EncodeMessages obtains the key of the       *)
(* destination (it raises UnknownClientCert otherwise).                    *)
(***************************************************************************)
RequiredCount(queue_size) == Max(0, MaxQueueSize - queue_size)

\* A bad mutation: the answer of the throttle callback is not looked at.
EgressModeNoCallback(should_throttle, callback_allows, elapsed) ==
  IF should_throttle THEN "throttled"
  ELSE IF elapsed < EgressBudget THEN "drain" ELSE "late"

EgressMode(should_throttle, callback_allows, elapsed) ==
  IF should_throttle THEN "throttled"
  ELSE IF callback_allows THEN (IF elapsed < EgressBudget THEN "drain" ELSE "late")
  ELSE "denied"

\* A bad mutation: the drained tasks are not scheduled again.
ReturnToQueueForgotten(q, tasks) == q

\* A bad mutation: the tasks are deleted instead of rescheduled.
ReturnToQueueDeleted(q, tasks) == DeQueueClientRequest(q, tasks)

\* A bad mutation: the tasks the bundle's statuses completed are put back on
\* the queue together with the drained ones.
ReturnToQueueRollsBack(q, tasks) ==
  Schedule(q, tasks \cup {t \in TaskIds : q[t].state = "done"})

\* except communicator.UnknownClientCert: Schedule(tasks)
ReturnToQueue(q, tasks) == Schedule(q, tasks)

NoOps == [s \in Sessions |-> <<>>]
NoDrain(q) == [result |-> {}, queue |-> q, ops |-> <<>>, new_tasks |-> {},
               status_found |-> {}]

HandleRecord(p, decode, result, ingested, r, throttled, mode, required_count, fresh, dr) ==
  [op |-> "Handle", parcel |-> p, client_id |-> p.source, queue_size |-> p.queue_size,
   decode |-> decode, result |-> result, queueBefore |-> queue[p.source],
   ingested |-> ingested, ops |-> r.ops, processed |-> r.processed,
   \* the queue and the stored statuses when ReceiveMessages has returned
   received |-> [queue |-> r.queue, statuses |-> r.statuses],
   throttled |-> throttled, callback |-> throttle_callback, mode |-> mode,
   required_count |-> required_count,
   \* the drain: what was leased, which of it had never been leased before,
   \* what had a status, the calls made and the batch returned
   new_tasks |-> dr.new_tasks, fresh |-> fresh, status_found |-> dr.status_found,
   drain_ops |-> dr.ops, job |-> dr.result,
   \* the same parcel was accepted by the call before this one
   replay |-> last.op = "Handle" /\ last.result = "ok" /\ last.parcel = p]

HandleMessageBundles(p, dt, encode_ok) ==
  \E d \in {DecodeMessages(pub_key_cache, client_cache, store, p.source, p.timestamp,
                           p.source_ip, FALSE, p.signature_valid, now)} :
    LET decode == DecodeRecord(p.source, p.timestamp, p.source_ip, p.signature_valid, d)
        q == queue[p.source]
        nothing == [queue |-> q, statuses |-> statuses, prng |-> prng,
                    ops |-> NoOps, processed |-> NoOps]
    IN /\ pub_key_cache' = d.pub_key_cache
       /\ client_cache' = d.client_cache
       /\ store' = d.store
       /\ UNCHANGED <<throttle_bundles_ratio, throttle_callback>>
       /\ IF d.result # "ok"
            THEN /\ last' = HandleRecord(p, decode, d.result, FALSE, nothing, FALSE,
                                         "none", 0, {}, NoDrain(q))
                 /\ UNCHANGED <<handled_bundles, last_not_throttled_bundle_time, now,
                                queueVars>>
            ELSE
              /\ now + dt \in Times
              /\ throttle_bundles_ratio = NoRatio \/ Len(handled_bundles) < MaxWindow
              /\ \E r \in {IF p.messages # <<>>
                             THEN ReceiveMessages(q, statuses, prng, p.messages)
                             ELSE nothing},
                    th \in {UpdateAndCheckIfShouldThrottle(
                              throttle_bundles_ratio, handled_bundles,
                              last_not_throttled_bundle_time, now + dt)} :
                   LET required_count == RequiredCount(p.queue_size)
                       mode == EgressMode(th.throttled, throttle_callback, dt)
                   IN \E lease \in (IF mode = "drain"
                                      THEN Leasable(r.queue, required_count) ELSE {{}}) :
                      \E dr \in {IF mode = "drain"
                                   THEN DrainTaskSchedulerQueueForClient(
                                          r.queue, r.statuses, required_count, lease)
                                   ELSE NoDrain(r.queue)} :
                        /\ queue' = [queue EXCEPT ![p.source] =
                                       IF encode_ok THEN dr.queue
                                       ELSE ReturnToQueue(dr.queue, dr.result)]
                        /\ statuses' = r.statuses
                        /\ prng' = r.prng
                        /\ handled_bundles' = th.handled_bundles
                        /\ last_not_throttled_bundle_time' =
                             th.last_not_throttled_bundle_time
                        /\ now' = now + dt
                        /\ last' = HandleRecord(
                                     p, decode,
                                     IF encode_ok THEN "ok" ELSE "EncodeUnknownSource",
                                     p.messages # <<>>, r, th.throttled, mode,
                                     required_count,
                                     {t \in lease : r.queue[t].ttl = InitialTTL}, dr)

SetThrottleCallBack(allows) ==
  /\ throttle_callback' = allows
  /\ last' = [op |-> "SetThrottleCallBack"]
  /\ UNCHANGED <<commVars, throttleVars, now, queueVars>>

\* The lease of a task runs out (message_expiry_time has passed).
LeaseExpires(client_id, task_id) ==
  /\ queue[client_id][task_id].state = "queued"
  /\ queue[client_id][task_id].leased
  /\ queue' = [queue EXCEPT ![client_id][task_id].leased = FALSE]
  /\ last' = [op |-> "LeaseExpires"]
  /\ UNCHANGED <<commVars, throttleVars, throttle_callback, now, statuses, prng>>

\* The egress alone, as HandleMessageBundles runs it for a parcel with this
\* queue_size when nothing throttles: required_count and the drain.
DrainCall(client_id, queue_size) ==
  LET required_count == RequiredCount(queue_size)
      q == queue[client_id]
  IN /\ store[client_id].CERT = client_id
     /\ \E lease \in Leasable(q, required_count) :
        \E dr \in {DrainTaskSchedulerQueueForClient(q, statuses, required_count, lease)} :
          /\ queue' = [queue EXCEPT ![client_id] = dr.queue]
          /\ last' = [op |-> "Drain", client_id |-> client_id, queue_size |-> queue_size,
                      required_count |-> required_count, new_tasks |-> dr.new_tasks,
                      fresh |-> {t \in lease : q[t].ttl = InitialTTL},
                      status_found |-> dr.status_found, drain_ops |-> dr.ops,
                      job |-> dr.result]
     /\ UNCHANGED <<commVars, throttleVars, throttle_callback, now, statuses, prng>>

NextDrain ==
  \/ \E a \in Agents, t \in TaskIds : ScheduleTask(a, t)
  \/ \E a \in Agents, t \in TaskIds : LeaseExpires(a, t)
  \/ \E a \in Agents, messages \in DrainBundles : ReceiveCall(a, messages)
  \/ \E a \in Agents, queue_size \in 0..(MaxQueueSize + 1) : DrainCall(a, queue_size)

SpecDrain == Init /\ [][NextDrain]_vars

\* The whole server.  One task is scheduled; the throttle ratio is unset or 0.
Next ==
  \/ \E ratio \in {NoRatio, ZeroRatio} : SetThrottleBundlesRatio(ratio)
  \/ \E allows \in BOOLEAN : SetThrottleCallBack(allows)
  \/ \E a \in Agents : ScheduleTask(a, 1)
  \/ \E p \in Parcels, dt \in {0, EgressBudget}, encode_ok \in BOOLEAN :
       HandleMessageBundles(p, dt, encode_ok)

Spec == Init /\ [][Next]_vars

(***************************************************************************)
(* The throttler under arrivals that are not evenly spaced: the ratio is   *)
(* set once, then UpdateAndCheckIfShouldThrottle is called with call times *)
(* that never decrease, each a gap of Gaps after the one before.           *)
(***************************************************************************)
Gaps == {0, 1, 10}
MaxArrivals == 5
FullRatio == [num |-> 1, den |-> 1]

EnableThrottling(ratio) ==
  LET r == SetRatio(ratio, handled_bundles, last_not_throttled_bundle_time)
  IN /\ last.op = "Init"
     /\ throttle_bundles_ratio' = r.throttle_bundles_ratio
     /\ handled_bundles' = r.handled_bundles
     /\ last_not_throttled_bundle_time' = r.last_not_throttled_bundle_time
     /\ last' = [op |-> "Arrival", calls |-> 0, bundle_time |-> now,
                 throttled |-> FALSE, increasing |-> TRUE]
     /\ UNCHANGED <<commVars, throttle_callback, now, queueVars>>

ArrivalCall(gap) ==
  /\ last.op = "Arrival"
  /\ last.calls < MaxArrivals
  /\ \E r \in {UpdateAndCheckIfShouldThrottle(throttle_bundles_ratio, handled_bundles,
                                              last_not_throttled_bundle_time,
                                              now + gap)} :
       /\ now' = now + gap
       /\ handled_bundles' = r.handled_bundles
       /\ last_not_throttled_bundle_time' = r.last_not_throttled_bundle_time
       /\ last' = [op |-> "Arrival", calls |-> last.calls + 1,
                   bundle_time |-> now + gap, throttled |-> r.throttled,
                   \* no two calls so far had the same call time
                   increasing |-> last.increasing /\ (gap > 0 \/ last.calls = 0)]
  /\ UNCHANGED <<commVars, throttle_bundles_ratio, throttle_callback, queueVars>>

NextArrivals ==
  \/ \E ratio \in {FullRatio, [num |-> 1, den |-> 2]} : EnableThrottling(ratio)
  \/ \E gap \in Gaps : ArrivalCall(gap)

SpecArrivals == Init /\ [][NextArrivals]_vars

(***************************************************************************)
(* HandleMessageBundles with both tasks on the queues: a bundle completes  *)
(* task 1 while task 2 is drained for the response, which may then fail to *)
(* encode.  Nothing throttles.                                             *)
(***************************************************************************)
NextEncode ==
  \/ \E a \in Agents, t \in TaskIds : ScheduleTask(a, t)
  \/ \E a \in Agents, t \in TaskIds : LeaseExpires(a, t)
  \/ \E p \in Parcels, encode_ok \in BOOLEAN : HandleMessageBundles(p, 0, encode_ok)

SpecEncode == Init /\ [][NextEncode]_vars

\* The last call, when it decoded a parcel whose signature was verified.
Verified == last.op \in {"Decode", "Handle"} /\ last.decode.result # "UnknownSource"
                                             /\ last.decode.checked
Accepted == Verified /\ last.decode.result = "ok"

(***************************************************************************)
(* C1: a bundle that VerifyMessageSignature accepts leaves the agent's     *)
(* CLOCK at the maximum of the CLOCK before and the bundle's timestamp, so *)
(* the CLOCK never decreases and stays when the timestamp is not later.    *)
(***************************************************************************)
C1_ClockIsMax ==
  Accepted =>
     LET d == last.decode
     IN /\ store[d.source].CLOCK = Max(d.storeBefore.CLOCK, d.timestamp)
        /\ store[d.source].CLOCK >= d.storeBefore.CLOCK
        /\ (d.timestamp <= d.storeBefore.CLOCK =>
              store[d.source].CLOCK = d.storeBefore.CLOCK)
        /\ RecordView(client_cache, store, d.source).CLOCK = store[d.source].CLOCK

\* An accepted out-of-order bundle: older than the CLOCK, inside the window.
C1_Witness ==
  /\ Accepted
  /\ last.decode.storeBefore.CLOCK > 0
  /\ last.decode.timestamp < last.decode.storeBefore.CLOCK
  /\ store[last.decode.source].CLOCK = last.decode.storeBefore.CLOCK

(***************************************************************************)
(* C2: a bundle older than CLOCK - 3600 s is DESYNCHRONIZED and changes no *)
(* attribute of the record, in the store or in the cached handle; a bundle *)
(* exactly 3600 s old is not desynchronized.                               *)
(***************************************************************************)
C2_DesyncNoMutation ==
  Verified =>
     LET d == last.decode
     IN /\ (d.timestamp < d.viewBefore.CLOCK - Hour =>
              /\ d.result = "Desynchronized"
              /\ store[d.source] = d.storeBefore
              /\ RecordView(client_cache, store, d.source) = d.viewBefore)
        /\ (d.timestamp = d.viewBefore.CLOCK - Hour => d.result # "Desynchronized")

(***************************************************************************)
(* C7: with the ratio set to 0, every call of                              *)
(* UpdateAndCheckIfShouldThrottle after the first returns true, whatever   *)
(* the call times (non-decreasing, equal ones included) and the window.    *)
(***************************************************************************)
C7_ZeroRatioThrottlesAll ==
  (last.op = "Throttle" /\ throttle_bundles_ratio = [num |-> 0, den |-> 1]
     /\ last.calls > 1) => last.throttled

(***************************************************************************)
(* C4: after ReceiveMessages, no task named by a STATUS message of the     *)
(* bundle is left on the agent's outbound queue, whatever messages share   *)
(* the STATUS message's session group.                                     *)
(***************************************************************************)
C4_StatusDequeuesTask ==
  last.op = "Receive" =>
     \A i \in 1..Len(last.messages) :
        (last.messages[i].type = "STATUS" /\ last.messages[i].task_id \in TaskIds)
          => queue[last.client_id][last.messages[i].task_id].state # "queued"

\* The calls of `name` among the QueueManager calls of the last ingest.
IngestCalls(name) ==
  {<<s, i>> \in Sessions \X (1..(2 * MaxMsgs + MaxMsgs * 3)) :
     i <= Len(last.ops[s]) /\ last.ops[s][i].call = name}

C5_BatchBounded ==
  last.op \in {"Drain", "Handle"} =>
     /\ Cardinality(last.job) <= Max(0, MaxQueueSize - last.queue_size)
     /\ \A t \in last.job :
          t \in last.fresh \/ <<TaskSession(t), TaskRequest(t)>> \notin statuses
     /\ (last.queue_size >= MaxQueueSize => last.job = {} /\ last.drain_ops = <<>>)

\* A drain that had to leave a task on the queue and resends one that was
\* leased before and has no status.
C5_Witness ==
  /\ last.op = "Drain" /\ last.job # {}
  /\ Cardinality(last.job) = MaxQueueSize - last.queue_size
  /\ \E t \in last.job : t \notin last.fresh
  /\ \E t \in TaskIds \ last.new_tasks :
       LET task == queue[last.client_id][t]
       IN task.state = "queued" /\ ~task.leased /\ task.ttl > 0

(***************************************************************************)
(* C6: a leased task that had never been leased before (its ttl was the    *)
(* initial one) is in the batch; a leased task that was leased before and  *)
(* has a status is not in the batch and is dequeued.                       *)
(***************************************************************************)
C6_FreshSentDoneDequeued ==
  last.op \in {"Drain", "Handle"} =>
     \A t \in last.new_tasks :
        /\ t \in last.fresh => t \in last.job
        /\ (t \notin last.fresh /\ <<TaskSession(t), TaskRequest(t)>> \in statuses) =>
             /\ t \notin last.job
             /\ \E i \in 1..Len(last.drain_ops) :
                  /\ last.drain_ops[i].call = "DeQueueClientRequest"
                  /\ last.drain_ops[i].task_id = t
             /\ queue[last.client_id][t].state = "done"

\* One drain sends a fresh task and dequeues a finished one.
C6_Witness ==
  /\ last.op = "Drain"
  /\ \E t \in last.new_tasks : t \in last.fresh /\ t \in last.job
  /\ \E t \in last.new_tasks :
       /\ t \notin last.fresh /\ t \in last.status_found
       /\ queue[last.client_id][t].state = "done"

(***************************************************************************)
(* C8: a bundle delivered a second time, with its timestamp not later than *)
(* the CLOCK, causes no QueueResponse write and no notification.           *)
(***************************************************************************)
C8_ReplayWritesNothing ==
  (last.op = "Handle" /\ last.replay /\ last.decode.result = "ok"
     /\ last.decode.timestamp <= last.decode.viewBefore.CLOCK) =>
     /\ IngestCalls("QueueResponse") = {}
     /\ IngestCalls("QueueNotification") = {}

(***************************************************************************)
(* C9: when encoding the response fails with UnknownSource, every task the *)
(* drain of this call returned is back on the agent's queue, free to be    *)
(* leased, and the call fails.                                             *)
(***************************************************************************)
C9_EncodeFailureReschedules ==
  (last.op = "Handle" /\ last.result = "EncodeUnknownSource") =>
     \A t \in last.job :
        LET task == queue[last.client_id][t]
        IN task.state = "queued" /\ ~task.leased

C9_Witness ==
  /\ last.op = "Handle" /\ last.result = "EncodeUnknownSource"
  /\ last.job # {}

(***************************************************************************)
(* C10: the messages of a decoded bundle are ingested whatever the         *)
(* throttler and the throttle callback answer; when either denies, no task *)
(* is leased and the response carries no task.                             *)
(***************************************************************************)
C10_ThrottleKeepsIngest ==
  (last.op = "Handle" /\ last.decode.result = "ok") =>
     /\ last.parcel.messages # <<>> =>
          \E s \in Sessions : last.ops[s] # <<>> \/ last.processed[s] # <<>>
     /\ (last.throttled \/ ~last.callback) =>
          /\ last.job = {} /\ last.new_tasks = {} /\ last.drain_ops = <<>>
          /\ \A t \in TaskIds :
               queue[last.client_id][t].state = "queued" =>
                 queue[last.client_id][t] = last.queueBefore[t]

\* The callback denies a bundle that completes nothing while a task waits.
C10_Witness ==
  /\ last.op = "Handle" /\ last.decode.result = "ok"
  /\ ~last.throttled /\ ~last.callback
  /\ last.parcel.messages # <<>>
  /\ last.parcel.queue_size = 0
  /\ \E t \in TaskIds : LET task == queue[last.client_id][t]
                        IN task.state = "queued" /\ ~task.leased /\ task.ttl > 0

\* The QueueManager calls of the last ReceiveMessages for session s.
ReceiveOps(s) == IF last.op = "Receive" THEN last.ops[s] ELSE <<>>

\* How many of the calls for session s satisfy P.
CountOps(s, P(_)) == Cardinality({i \in 1..Len(ReceiveOps(s)) : P(ReceiveOps(s)[i])})

(***************************************************************************)
(* The throttler under a constant load: the ratio is set to 1/k once, then *)
(* bundles arrive every d seconds.  `since` counts the calls since the     *)
(* last admission that set last_not_throttled_bundle_time, -1 before the   *)
(* first one; `gap` is the value of `since` + 1 that admission ended.      *)
(***************************************************************************)
Spacings == {1, 3, 20}
Denominators == {1, 2, 3, 49}
MaxCalls == 150

SetRate(d, k) ==
  LET r == SetRatio([num |-> 1, den |-> k], handled_bundles,
                    last_not_throttled_bundle_time)
  IN /\ last.op = "Init"
     /\ throttle_bundles_ratio' = r.throttle_bundles_ratio
     /\ handled_bundles' = r.handled_bundles
     /\ last_not_throttled_bundle_time' = r.last_not_throttled_bundle_time
     /\ last' = [op |-> "Rate", d |-> d, k |-> k, calls |-> 0, since |-> -1,
                 gap |-> 0, throttled |-> FALSE]
     /\ UNCHANGED <<commVars, throttle_callback, now, queueVars>>

RateCall ==
  /\ last.op = "Rate"
  /\ last.calls < MaxCalls
  /\ \E r \in {UpdateAndCheckIfShouldThrottle(throttle_bundles_ratio, handled_bundles,
                                              last_not_throttled_bundle_time,
                                              now + last.d)} :
       LET updated == r.last_not_throttled_bundle_time # last_not_throttled_bundle_time
       IN /\ now' = now + last.d
          /\ handled_bundles' = r.handled_bundles
          /\ last_not_throttled_bundle_time' = r.last_not_throttled_bundle_time
          /\ last' = [last EXCEPT
                        !.calls = @ + 1,
                        !.throttled = r.throttled,
                        !.since = IF updated THEN 0
                                  ELSE IF @ = -1 THEN -1 ELSE @ + 1,
                        !.gap = IF updated /\ last.since # -1 THEN last.since + 1
                                ELSE 0]
  /\ UNCHANGED <<commVars, throttle_bundles_ratio, throttle_callback, queueVars>>

NextRate ==
  \/ \E d \in Spacings, k \in Denominators : SetRate(d, k)
  \/ RateCall

SpecRate == Init /\ [][NextRate]_vars

(***************************************************************************)
(* Two bundle handlers inside UpdateAndCheckIfShouldThrottle at once.  The *)
(* method takes no lock, so the handlers interleave between its            *)
(* statements: append, trim the window, read the window (blen, interval),  *)
(* test against last_not_throttled_bundle_time, set it.  Each handler's    *)
(* position and locals are kept in last.threads.                           *)
(***************************************************************************)
Handlers == {"H1", "H2"}

Entering(bundle_time) ==
  [pc |-> "append", bundle_time |-> bundle_time, span |-> 0, gaps |-> 0,
   should_throttle |-> FALSE, result |-> FALSE]

Running == last.op = "Concurrent" /\ \E h \in Handlers : last.threads[h].pc # "done"

EnterConcurrently(t1, t2) ==
  /\ ~Running
  /\ throttle_bundles_ratio # NoRatio
  /\ Len(handled_bundles) < MaxWindow
  /\ last' = [op |-> "Concurrent",
              threads |-> [h \in Handlers |-> Entering(IF h = "H1" THEN t1 ELSE t2)],
              handled_bundles |-> handled_bundles,
              last_not_throttled_bundle_time |-> last_not_throttled_bundle_time]
  /\ UNCHANGED <<commVars, throttleVars, throttle_callback, now, queueVars>>

HandlerStep(h) ==
  LET th == last.threads[h]
      to(new) == [last EXCEPT !.threads[h] = new]
  IN /\ Running
     /\ th.pc # "done"
     /\ UNCHANGED <<commVars, throttle_bundles_ratio, throttle_callback, now, queueVars>>
     /\ CASE th.pc = "append" ->
               /\ handled_bundles' = Append(handled_bundles, th.bundle_time)
               /\ last' = to([th EXCEPT !.pc = "trim"])
               /\ UNCHANGED last_not_throttled_bundle_time
          [] th.pc = "trim" ->
               /\ handled_bundles' =
                    DropOldest(handled_bundles, th.bundle_time - ThrottleAverageInterval)
               /\ last' = to([th EXCEPT !.pc = "blen"])
               /\ UNCHANGED last_not_throttled_bundle_time
          [] th.pc = "blen" ->
               LET blen == Len(handled_bundles)
               IN /\ last' = to(IF blen > 1
                                  THEN [th EXCEPT !.pc = "test",
                                          !.span = handled_bundles[blen] - handled_bundles[1],
                                          !.gaps = blen - 1]
                                  ELSE [th EXCEPT !.pc = "done",
                                          !.result = (throttle_bundles_ratio.num = 0)])
                  /\ UNCHANGED <<handled_bundles, last_not_throttled_bundle_time>>
          [] th.pc = "test" ->
               /\ last' = to([th EXCEPT !.pc = "set",
                                !.should_throttle =
                                   BelowInterval(
                                     th.bundle_time - last_not_throttled_bundle_time,
                                     th.span, th.gaps, throttle_bundles_ratio)])
               /\ UNCHANGED <<handled_bundles, last_not_throttled_bundle_time>>
          [] th.pc = "set" ->
               /\ last_not_throttled_bundle_time' =
                    IF th.should_throttle THEN last_not_throttled_bundle_time
                    ELSE th.bundle_time
               /\ last' = to([th EXCEPT !.pc = "done", !.result = th.should_throttle])
               /\ UNCHANGED handled_bundles

NextConcurrent ==
  \/ ~Running /\ Tick
  \/ ~Running /\ \E ratio \in Ratios : SetThrottleBundlesRatio(ratio)
  \/ ~Running /\ ThrottleCall
  \/ \E t1, t2 \in {now, now + 1} : EnterConcurrently(t1, t2)
  \/ \E h \in Handlers : HandlerStep(h)

SpecConcurrent == Init /\ [][NextConcurrent]_vars

(***************************************************************************)
(* Two bundle handlers of one agent inside VerifyMessageSignature at once, *)
(* both holding the record handle that client_cache returned.  Nothing     *)
(* serialises them, so they interleave between the statements: set         *)
(* CLIENT_IP, read CLOCK and run the replay check, set CLOCK and PING,     *)
(* flush.  Each handler's position and locals are kept in last.threads.    *)
(***************************************************************************)
Verifying == last.op = "Verifying" /\ \E h \in Handlers : last.threads[h].pc # "done"

EnterVerification(client_id, ts1, ts2) ==
  /\ ~Verifying
  /\ client_cache[client_id].open
  /\ last' = [op |-> "Verifying", client_id |-> client_id,
              threads |-> [h \in Handlers |->
                             [pc |-> "ip", timestamp |-> IF h = "H1" THEN ts1 ELSE ts2,
                              remote_time |-> 0, advanced |-> FALSE,
                              state |-> "none"]],
              clockBefore |-> store[client_id].CLOCK]
  /\ UNCHANGED <<commVars, throttleVars, throttle_callback, now, queueVars>>

VerificationStep(h) ==
  LET th == last.threads[h]
      client_id == last.client_id
      client == client_cache[client_id]
      to(new) == [last EXCEPT !.threads[h] = new]
  IN /\ Verifying
     /\ th.pc # "done"
     /\ UNCHANGED <<pub_key_cache, throttleVars, throttle_callback, now, queueVars>>
     /\ CASE th.pc = "ip" ->
               /\ client_cache' = [client_cache EXCEPT
                                     ![client_id] = Set(client, "CLIENT_IP", "ip1")]
               /\ last' = to([th EXCEPT !.pc = "read"])
               /\ UNCHANGED store
          [] th.pc = "read" ->
               /\ last' = to(IF IsDesynchronized(th.timestamp, client.CLOCK)
                               THEN [th EXCEPT !.pc = "done", !.remote_time = client.CLOCK,
                                               !.state = "DESYNCHRONIZED"]
                               ELSE [th EXCEPT !.pc = "set", !.remote_time = client.CLOCK])
               /\ UNCHANGED <<client_cache, store>>
          [] th.pc = "set" ->
               LET forward == ClockMovesForward(th.timestamp, th.remote_time)
               IN /\ client_cache' =
                       IF forward
                         THEN [client_cache EXCEPT ![client_id] =
                                 Set(Set(client, "CLOCK", th.timestamp), "PING", now)]
                         ELSE client_cache
                  /\ last' = to([th EXCEPT !.pc = "flush", !.advanced = forward])
                  /\ UNCHANGED store
          [] th.pc = "flush" ->
               /\ store' = Flush(store, client_id, client)
               /\ client_cache' = [client_cache EXCEPT ![client_id] = Flushed(client)]
               /\ last' = to([th EXCEPT !.pc = "done", !.state = "AUTHENTICATED"])

NextVerification ==
  \/ ~Verifying /\ Tick
  \/ ~Verifying /\ \E ts \in TimeStamps : DecodeCall("A1", ts, "ip1", FALSE, TRUE)
  \/ \E ts1, ts2 \in TimeStamps : EnterVerification("A1", ts1, ts2)
  \/ \E h \in Handlers : VerificationStep(h)

SpecVerification == Init /\ [][NextVerification]_vars

(***************************************************************************)
(* HandleWellKnownFlows alone, on any list of messages.                    *)
(***************************************************************************)
WellKnownCall(messages) ==
  \E w \in {HandleWellKnownFlows(messages, prng)} :
     /\ prng' = w.prng
     /\ last' = [op |-> "WellKnown", messages |-> messages, result |-> w.result,
                 msgs_by_wkf |-> w.msgs_by_wkf]
     /\ UNCHANGED <<commVars, throttleVars, throttle_callback, now, queue, statuses>>

NextWellKnown == \E messages \in Bundles : WellKnownCall(messages)

SpecWellKnown == Init /\ [][NextWellKnown]_vars

(***************************************************************************)
(* Public-key resolution alone.  Each agent's record starts with no        *)
(* certificate, with its own, or with one issued to another name.          *)
(***************************************************************************)
Certificates(a) == {NoCert, a} \cup {CHOOSE b \in Agents : b # a}

InitKeys ==
  /\ store \in {st \in [Agents -> [CERT : {NoCert} \cup Agents, CLOCK : {0}, PING : {0},
                                   CLIENT_IP : {NoIP}]] :
                  \A a \in Agents : st[a].CERT \in Certificates(a)}
  /\ client_cache = [a \in Agents |-> NoHandle]
  /\ pub_key_cache = {}
  /\ throttle_bundles_ratio = NoRatio
  /\ handled_bundles = <<>>
  /\ last_not_throttled_bundle_time = 0
  /\ throttle_callback = TRUE
  /\ now = EgressBudget
  /\ queue = [a \in Agents |-> [t \in TaskIds |-> NoTask]]
  /\ statuses = {}
  /\ prng = 0
  /\ last = [op |-> "Init"]

ResolveCall(common_name) ==
  \E k \in {GetRemotePublicKey(pub_key_cache, client_cache, store, common_name)} :
     /\ pub_key_cache' = k.pub_key_cache
     /\ client_cache' = k.client_cache
     /\ last' = [op |-> "Resolve", common_name |-> common_name, ok |-> k.ok,
                 unique_clients |-> k.unique, keysBefore |-> pub_key_cache,
                 cacheBefore |-> client_cache]
     /\ UNCHANGED <<store, throttleVars, throttle_callback, now, queueVars>>

NextKeys ==
  \/ \E a \in Agents : ResolveCall(a)
  \/ \E a \in Agents, ts \in ParcelTimeStamps, ip \in IPs, sv \in BOOLEAN :
       DecodeCall(a, ts, ip, FALSE, sv)

SpecKeys == InitKeys /\ [][NextKeys]_vars

(***************************************************************************)
(* ReceiveMessages when the well-known handler of the k-th session group   *)
(* raises (wkf.ProcessMessages, called from HandleWellKnownFlows).  The    *)
(* groups before it have run.  Their QueueManager calls were made inside   *)
(* the `with` scope, which discards them on the error exit; PublishEvent   *)
(* and ProcessMessages are not QueueManager calls and have happened.       *)
(***************************************************************************)
PublishedEvents(ops) ==
  {o \in UNION {{ops[s][i] : i \in 1..Len(ops[s])} : s \in Sessions} :
     o.call = "PublishEvent"}

ReceiveMessagesRaising(q, stat, p, messages, k) ==
  LET order == SessionOrder(messages)
      g == ReceiveGroups(messages, SubSeq(order, 1, k - 1),
                         [prng |-> p, ops |-> NoOps, processed |-> NoOps])
      msgs == SelectSeq(messages, LAMBDA m : m.session_id = order[k])
      w == HandleWellKnownFlows(msgs, g.prng)
  IN [queue |-> q, statuses |-> stat, prng |-> w.prng,
      calls |-> g.ops, processed |-> g.processed,
      events |-> PublishedEvents(g.ops),
      raising |-> w.msgs_by_wkf]

ReceiveRaisesCall(client_id, messages, k) ==
  /\ store[client_id].CERT = client_id
  /\ k \in 1..Len(SessionOrder(messages))
  /\ \E r \in {ReceiveMessagesRaising(queue[client_id], statuses, prng, messages, k)} :
       /\ r.raising # <<>>
       /\ queue' = [queue EXCEPT ![client_id] = r.queue]
       /\ statuses' = r.statuses
       /\ prng' = r.prng
       /\ last' = [op |-> "ReceiveRaises", client_id |-> client_id,
                   messages |-> messages, k |-> k, calls |-> r.calls,
                   processed |-> r.processed, events |-> r.events,
                   queueBefore |-> queue[client_id], statusesBefore |-> statuses]
  /\ UNCHANGED <<commVars, throttleVars, throttle_callback, now>>

NextRaise ==
  \/ \E a \in Agents, t \in TaskIds : ScheduleTask(a, t)
  \/ \E a \in Agents, messages \in DrainBundles : ReceiveCall(a, messages)
  \/ \E a \in Agents, messages \in Bundles, k \in 1..MaxMsgs :
       ReceiveRaisesCall(a, messages, k)

SpecRaise == Init /\ [][NextRaise]_vars

(***************************************************************************)
(* C14: when ReceiveMessages fails with an exception after it processed    *)
(* some messages of the bundle, no effect of the bundle is visible: the    *)
(* agent's queue and the recorded responses are as before, and no          *)
(* ClientCrash event has been published.                                   *)
(***************************************************************************)
C14_AllOrNothing ==
  last.op = "ReceiveRaises" =>
     /\ queue[last.client_id] = last.queueBefore
     /\ statuses = last.statusesBefore
     /\ last.events = {}

(***************************************************************************)
(* C11: within one ReceiveMessages call every QueueResponse for a session  *)
(* is issued before every QueueNotification for that session.              *)
(***************************************************************************)
C11_ResponsesBeforeNotifications ==
  \A s \in Sessions :
    \A i, j \in 1..Len(ReceiveOps(s)) :
       (ReceiveOps(s)[i].call = "QueueNotification"
          /\ ReceiveOps(s)[j].call = "QueueResponse") => j < i

\* Two responses and a notification for one session.
C11_Witness ==
  \E s \in Sessions :
    /\ CountOps(s, LAMBDA o : o.call = "QueueResponse") = 2
    /\ CountOps(s, LAMBDA o : o.call = "QueueNotification") >= 1

(***************************************************************************)
(* C12: a bundle of one non-STATUS message with request_id # 0 and         *)
(* response_id # 0 for a session queues that response and emits exactly    *)
(* one notification for the session, with last_status unset.               *)
(***************************************************************************)
C12_DataMessageNotifies ==
  (/\ last.op = "Receive" /\ Len(last.messages) = 1
   /\ last.messages[1].type = "MESSAGE"
   /\ last.messages[1].request_id # 0 /\ last.messages[1].response_id # 0) =>
     LET m == last.messages[1]
         s == m.session_id
     IN /\ CountOps(s, LAMBDA o : /\ o.call = "QueueResponse"
                                  /\ o.request_id = m.request_id
                                  /\ o.response_id = m.response_id) = 1
        /\ CountOps(s, LAMBDA o : o.call = "QueueNotification") = 1
        /\ CountOps(s, LAMBDA o : o.call = "QueueNotification" /\ o.request_id = -1) = 1

(***************************************************************************)
(* C13: for the STATUS messages of a session that no well-known handler    *)
(* takes (with request_id # 0), there is one notification with last_status *)
(* = request_id per message, and one ClientCrash event per message whose   *)
(* status is CLIENT_KILLED and none for the others.                        *)
(***************************************************************************)
C13_StatusNotifiesOnce ==
  last.op = "Receive" =>
    \A s \in Sessions, r \in RequestIds \ {0} :
      LET status == {i \in 1..Len(last.messages) :
                       /\ last.messages[i].session_id = s
                       /\ last.messages[i].type = "STATUS"
                       /\ last.messages[i].request_id = r
                       /\ ~(last.messages[i].response_id = 0
                            /\ FlowName(s) \in WellKnownFlows)}
          killed == {i \in status : last.messages[i].status = "CLIENT_KILLED"}
      IN /\ CountOps(s, LAMBDA o : o.call = "QueueNotification" /\ o.request_id = r)
              = Cardinality(status)
         /\ CountOps(s, LAMBDA o : o.call = "PublishEvent" /\ o.request_id = r)
              = Cardinality(killed)

\* In the state reached by the last call: a STATUS for task t of agent a was
\* seen by it, in the ingested messages or by MultiCheckStatus in the drain.
StatusObserved(a, t) ==
  /\ last.op \in {"Receive", "Handle", "Drain"}
  /\ last.client_id = a
  /\ LET messages == IF last.op = "Receive" THEN last.messages
                     ELSE IF last.op = "Handle" /\ last.decode.result = "ok"
                       THEN last.parcel.messages
                     ELSE <<>>
         status_found == IF last.op = "Receive" THEN {} ELSE last.status_found
     IN \/ \E i \in 1..Len(messages) :
             messages[i].type = "STATUS" /\ messages[i].task_id = t
        \/ t \in status_found

(***************************************************************************)
(* C15: a task leaves an agent's outbound queue only in a call that saw a  *)
(* STATUS for it: a STATUS message with its task_id ingested from the      *)
(* agent, or a status reported by MultiCheckStatus in the drain.  Leasing, *)
(* draining, throttling and an encode failure do not delete a task.        *)
(***************************************************************************)
C15_DeletedOnlyAfterStatus ==
  [][\A a \in Agents, t \in TaskIds :
       (queue[a][t].state = "queued" /\ queue'[a][t].state # "queued")
         => StatusObserved(a, t)']_vars

\* A call has taken a queued task off the queue.
C15_Witness ==
  /\ last.op = "Handle"
  /\ \E t \in TaskIds : /\ last.queueBefore[t].state = "queued"
                        /\ queue[last.client_id][t].state = "done"

(***************************************************************************)
(* C16: with ratio 1/k and bundles every d seconds, from the first         *)
(* admission that sets last_not_throttled_bundle_time on, exactly one of   *)
(* every k consecutive calls is admitted: each admission comes k calls     *)
(* after the one before, and the calls between them are throttled.         *)
(***************************************************************************)
C16_OneOfEveryK ==
  (last.op = "Rate" /\ last.since # -1) =>
     /\ last.since < last.k
     /\ last.gap # 0 => last.gap = last.k
     /\ last.since > 0 => last.throttled

\* The two calls run one after the other, `first` first, from the state the
\* handlers entered in.
OneAfterTheOther(first, second) ==
  LET c1 == UpdateAndCheckIfShouldThrottle(
              throttle_bundles_ratio, last.handled_bundles,
              last.last_not_throttled_bundle_time, last.threads[first].bundle_time)
      c2 == UpdateAndCheckIfShouldThrottle(
              throttle_bundles_ratio, c1.handled_bundles,
              c1.last_not_throttled_bundle_time, last.threads[second].bundle_time)
  IN [handled_bundles |-> c2.handled_bundles,
      last_not_throttled_bundle_time |-> c2.last_not_throttled_bundle_time,
      results |-> [h \in Handlers |-> IF h = first THEN c1.throttled ELSE c2.throttled]]

(***************************************************************************)
(* C17: when two concurrent calls of UpdateAndCheckIfShouldThrottle have   *)
(* both returned, the window, last_not_throttled_bundle_time and the two   *)
(* return values are those of the two calls run one after the other in one *)
(* of the two orders.                                                      *)
(***************************************************************************)
C17_ThrottlerAppearsAtomic ==
  (last.op = "Concurrent" /\ ~Running) =>
     \E order \in {<<"H1", "H2">>, <<"H2", "H1">>} :
        LET serial == OneAfterTheOther(order[1], order[2])
        IN /\ handled_bundles = serial.handled_bundles
           /\ last_not_throttled_bundle_time = serial.last_not_throttled_bundle_time
           /\ \A h \in Handlers : last.threads[h].result = serial.results[h]

(***************************************************************************)
(* C18: when two interleaved VerifyMessageSignature executions on one      *)
(* agent's record have both finished, the stored CLOCK is at least the     *)
(* CLOCK before them and at least every accepted timestamp that advanced   *)
(* it.                                                                     *)
(***************************************************************************)
C18_ClockMonotoneInterleaved ==
  (last.op = "Verifying" /\ ~Verifying) =>
     /\ store[last.client_id].CLOCK >= last.clockBefore
     /\ \A h \in Handlers :
          last.threads[h].advanced =>
            store[last.client_id].CLOCK >= last.threads[h].timestamp

\* A message a well-known handler takes.
ForHandler(m) == m.response_id = 0 /\ FlowName(m.session_id) \in WellKnownFlows

(***************************************************************************)
(* C19: HandleWellKnownFlows hands a message to a well-known handler, and  *)
(* does not return it, iff its response_id is 0 and its flow name is a     *)
(* configured handler; each handler gets all of its messages; every other  *)
(* message is returned exactly once; every returned message has            *)
(* response_id # 0.                                                        *)
(***************************************************************************)
C19_WellKnownPartition ==
  last.op = "WellKnown" =>
     LET kept == SelectSeq(last.messages, LAMBDA m : ~ForHandler(m))
     IN /\ last.msgs_by_wkf = SelectSeq(last.messages, ForHandler)
        /\ Len(last.result) = Len(kept)
        /\ \A j \in 1..Len(kept) :
             [last.result[j] EXCEPT !.response_id = 0] = [kept[j] EXCEPT !.response_id = 0]
        /\ \A j \in 1..Len(last.result) : last.result[j].response_id # 0

(***************************************************************************)
(* C20: pub_key_cache holds a key for a name only if the certificate       *)
(* stored for that name has the name as its subject; a resolution that     *)
(* fails with UnknownSource leaves pub_key_cache and client_cache as they  *)
(* were, and counts one unique client when the certificate is absent.      *)
(***************************************************************************)
C20_OnlyValidatedKeysCached ==
  /\ \A s \in pub_key_cache : store[s].CERT = s
  /\ (last.op = "Resolve" /\ ~last.ok) =>
        /\ pub_key_cache = last.keysBefore
        /\ client_cache = last.cacheBefore
        /\ store[last.common_name].CERT = NoCert => last.unique_clients = 1

\* A resolution fails on a certificate issued to another name, while the key
\* of another agent is cached.
C20_Witness ==
  /\ last.op = "Resolve" /\ ~last.ok
  /\ store[last.common_name].CERT \notin {NoCert, last.common_name}
  /\ pub_key_cache # {}

(***************************************************************************)
(* C21: when HandleMessageBundles fails because encoding the response      *)
(* raises UnknownClientCert (the spec's UnknownSource), what               *)
(* ReceiveMessages committed for the bundle stays: the statuses it stored, *)
(* the tasks it dequeued and the CLOCK the decode advanced are as they     *)
(* were when ReceiveMessages returned, its QueueResponse and notification  *)
(* calls were issued, and the queue differs from the one ReceiveMessages   *)
(* left only at the tasks the drain leased.                                *)
(***************************************************************************)
C21_InboundNotRolledBack ==
  (last.op = "Handle" /\ last.result = "EncodeUnknownSource") =>
     /\ statuses = last.received.statuses
     /\ store[last.client_id].CLOCK = last.decode.storeAfter.CLOCK
     /\ \A t \in TaskIds :
          /\ last.received.queue[t].state = "done" =>
                queue[last.client_id][t] = DoneTask
          /\ t \notin last.new_tasks =>
                queue[last.client_id][t] = last.received.queue[t]
     /\ last.parcel.messages # <<>> =>
          /\ last.ingested
          /\ \E s \in Sessions : last.ops[s] # <<>> \/ last.processed[s] # <<>>

\* The bundle's STATUS completes task 1 and advances the CLOCK, task 2 is
\* drained, and the response fails to encode.
C21_Witness ==
  /\ last.op = "Handle" /\ last.result = "EncodeUnknownSource"
  /\ last.queueBefore[1].state = "queued" /\ last.received.queue[1].state = "done"
  /\ <<"S1", 1>> \in statuses
  /\ last.decode.storeAfter.CLOCK > last.decode.storeBefore.CLOCK
  /\ last.job # {}

(***************************************************************************)
(* C22: with the ratio set to 1, UpdateAndCheckIfShouldThrottle never      *)
(* throttles: whatever the call times, as long as they do not decrease,    *)
(* every call returns false.                                               *)
(***************************************************************************)
C22_FullRatioNeverThrottles ==
  (last.op = "Arrival" /\ last.calls > 0 /\ throttle_bundles_ratio = FullRatio) =>
     ~last.throttled

====
